---- MODULE Spec2Model ----
(***************************************************************************)
(* Model of DiskAnalyzer (src/disk_analyzer.py): the partition-table       *)
(* decoder of a raw disk image.  The state is one DiskAnalyzer instance    *)
(* together with the image file it names; the operations are analyze()     *)
(* (called any number of times on the instance) and the environment        *)
(* rewriting the image file between two calls.                             *)
(*                                                                         *)
(* The program is modelled as run from its entry point (lines 517-519),    *)
(* where `os` is bound before main() runs.                                 *)
(*                                                                         *)
(* A file is [exists, size, data]: data maps the offsets that hold a       *)
(* non-zero byte to that byte, every other offset below size is 0x00.      *)
(* A Python bytes object obtained from the file is a window                *)
(* [data, off, len] onto it.  PartitionEntry.type and .size_human are      *)
(* presentation strings computed from type_code / size_bytes and are not   *)
(* carried in the entries.                                                 *)
(***************************************************************************)
EXTENDS Integers, Sequences, FiniteSets, TLC

VARIABLES
    image,           \* the content of the file self.disk_image names
    sector_size,     \* self.sector_size
    partition_type,  \* self.partition_type
    partitions,      \* self.partitions
    boot_signature,  \* self.boot_signature
    disk_size,       \* self.disk_size
    ret,             \* what the last analyze() returned ("none" before any call)
    trace,           \* what the last analyze() ran: [detect, decoder, short]
    last,            \* the last step taken: "init", "analyze" or "rewrite"
    before,          \* [partition_type, partitions, last] when the last analyze() began
    passes,          \* number of analyze() calls so far
    rewrites         \* number of rewrites of the image so far

vars == <<image, sector_size, partition_type, partitions, boot_signature,
          disk_size, ret, trace, last, before, passes, rewrites>>

----------------------------------------------------------------------------
(* Bounds of the model *)

\* at most this many analyze() calls on the instance
MaxPasses == 3

\* at most this many rewrites of the image file
MaxRewrites == 1

----------------------------------------------------------------------------
(* Bytes *)

Min(a, b) == IF a < b THEN a ELSE b

Max(a, b) == IF a > b THEN a ELSE b

\* the byte of a file's data at an offset
ByteAt(data, o) == IF o \in DOMAIN data THEN data[o] ELSE 0

\* f.read(n) with the file position at pos: the bytes up to the end of file
Read(file, pos, n) ==
    [data |-> file.data, off |-> pos, len |-> Max(0, Min(n, file.size - pos))]

\* len(b)
BLen(b) == b.len

\* b[k], for 0 <= k < len(b) (every index the decoder uses is below the
\* length: sector 0 holds at least 512 bytes, a header 92, a record 128)
Idx(b, k) == ByteAt(b.data, b.off + k)

\* b[lo:hi]: a slice, clamped to the object as Python clamps it
Slice(b, lo, hi) ==
    [data |-> b.data,
     off  |-> b.off + Min(lo, b.len),
     len  |-> Max(0, Min(hi, b.len) - Min(lo, b.len))]

\* the bytes of b as a sequence
RECURSIVE BytesFrom(_, _)
BytesFrom(b, k) ==
    IF k >= b.len THEN <<>> ELSE <<Idx(b, k)>> \o BytesFrom(b, k + 1)

AsSeq(b) == BytesFrom(b, 0)

\* struct.unpack('<I' / '<Q', b)[0]: little-endian unsigned, over all of b
RECURSIVE UnpackFrom(_, _)
UnpackFrom(b, k) ==
    IF k >= b.len THEN 0 ELSE Idx(b, k) + 256 * UnpackFrom(b, k + 1)

unpack_le(b) == UnpackFrom(b, 0)

\* all(x == 0 for x in b)
RECURSIVE AllZeroFrom(_, _)
AllZeroFrom(b, k) ==
    IF k >= b.len THEN TRUE ELSE Idx(b, k) = 0 /\ AllZeroFrom(b, k + 1)

all_zero(b) == AllZeroFrom(b, 0)

HexDigits == <<"0", "1", "2", "3", "4", "5", "6", "7",
               "8", "9", "a", "b", "c", "d", "e", "f">>

\* binascii.hexlify(b).decode('ascii'): two lower-case hex digits per byte
RECURSIVE HexFrom(_, _)
HexFrom(b, k) ==
    IF k >= b.len THEN <<>>
    ELSE <<HexDigits[(Idx(b, k) \div 16) + 1], HexDigits[(Idx(b, k) % 16) + 1]>>
         \o HexFrom(b, k + 1)

hexlify(b) == HexFrom(b, 0)

\* b.decode('utf-16le', errors='ignore'): one code unit per byte pair, a
\* trailing odd byte ignored (the model's names hold no surrogates)
RECURSIVE Utf16From(_, _)
Utf16From(b, k) ==
    IF k + 1 >= b.len THEN <<>>
    ELSE <<Idx(b, k) + 256 * Idx(b, k + 1)>> \o Utf16From(b, k + 2)

decode_utf16le(b) == Utf16From(b, 0)

\* s.strip('\x00'): leading and trailing NULs removed
RECURSIVE LStrip(_)
LStrip(s) == IF s # <<>> /\ Head(s) = 0 THEN LStrip(Tail(s)) ELSE s

RECURSIVE RStrip(_)
RStrip(s) ==
    IF s # <<>> /\ s[Len(s)] = 0 THEN RStrip(SubSeq(s, 1, Len(s) - 1)) ELSE s

strip_nul(s) == RStrip(LStrip(s))

----------------------------------------------------------------------------
(* The decoder: DiskAnalyzer's methods.  `self` is the record of the       *)
(* instance's fields.                                                      *)

\* class PartitionType
PartitionType == {"MBR", "GPT", "Unknown"}

\* b'EFI PART'
EFI_PART == <<69, 70, 73, 32, 80, 65, 82, 84>>

\* DiskAnalyzer.__init__
DiskAnalyzer(ss) ==
    [sector_size    |-> ss,
     partition_type |-> "Unknown",
     partitions     |-> <<>>,
     boot_signature |-> "",
     disk_size      |-> 0]

\* _detect_partition_type with the type code read at the start of entry 0
\* (offset 446) instead of offset 450
_detect_partition_type_entry_start(self, sector) ==
    IF Idx(sector, 510) = 85 /\ Idx(sector, 511) = 170
    THEN IF Idx(sector, 446) = 238
         THEN [self EXCEPT !.boot_signature = "55 AA", !.partition_type = "GPT"]
         ELSE [self EXCEPT !.boot_signature = "55 AA", !.partition_type = "MBR"]
    ELSE IF AsSeq(Slice(sector, 512, 520)) = EFI_PART
         THEN [self EXCEPT !.partition_type = "GPT"]
         ELSE self

\* _detect_partition_type with the two bytes of the boot signature swapped
_detect_partition_type_sig_swapped(self, sector) ==
    IF Idx(sector, 510) = 170 /\ Idx(sector, 511) = 85
    THEN IF Idx(sector, 450) = 238
         THEN [self EXCEPT !.boot_signature = "55 AA", !.partition_type = "GPT"]
         ELSE [self EXCEPT !.boot_signature = "55 AA", !.partition_type = "MBR"]
    ELSE IF AsSeq(Slice(sector, 512, 520)) = EFI_PART
         THEN [self EXCEPT !.partition_type = "GPT"]
         ELSE self

\* _detect_partition_type: the else branch of the GPT test only prints
_detect_partition_type(self, sector) ==
    IF Idx(sector, 510) = 85 /\ Idx(sector, 511) = 170          \* 0x55 0xAA
    THEN IF Idx(sector, 450) = 238                               \* 0xEE
         THEN [self EXCEPT !.boot_signature = "55 AA", !.partition_type = "GPT"]
         ELSE [self EXCEPT !.boot_signature = "55 AA", !.partition_type = "MBR"]
    ELSE IF AsSeq(Slice(sector, 512, 520)) = EFI_PART            \* sector[0x200:0x208]
         THEN [self EXCEPT !.partition_type = "GPT"]
         ELSE self

\* mbr_number numbering the slots from 0
mbr_number_zero_based(i) == i

\* the number an MBR entry of slot i is given
mbr_number(i) == i + 1

\* mbr_is_empty looking at the type code alone
mbr_is_empty_type_only(type_code, lba_start) == type_code = 0

\* the test for an empty MBR slot
mbr_is_empty(type_code, lba_start) == type_code = 0 /\ lba_start = 0

\* the PartitionEntry built from the 16 bytes of MBR slot i
mbr_entry(self, i, partition_data) ==
    LET status      == Idx(partition_data, 0)
        type_code   == Idx(partition_data, 4)
        lba_start   == unpack_le(Slice(partition_data, 8, 12))
        num_sectors == unpack_le(Slice(partition_data, 12, 16))
    IN  [number       |-> mbr_number(i),
         type_code    |-> type_code,
         start_sector |-> lba_start,
         size_sectors |-> num_sectors,
         end_sector   |-> lba_start + num_sectors - 1,
         size_bytes   |-> num_sectors * self.sector_size,
         guid         |-> <<>>,
         name         |-> <<>>,
         attributes   |-> 0,
         is_active    |-> (status = 128)]                        \* 0x80

\* the loop of _analyze_mbr, from slot i on
RECURSIVE mbr_loop(_, _, _)
mbr_loop(self, sector, i) ==
    IF i >= 4 THEN self
    ELSE LET offset         == 446 + (i * 16)
             partition_data == Slice(sector, offset, offset + 16)
         IN  IF BLen(partition_data) < 16
             THEN mbr_loop(self, sector, i + 1)
             ELSE IF mbr_is_empty(Idx(partition_data, 4),
                                  unpack_le(Slice(partition_data, 8, 12)))
                  THEN mbr_loop(self, sector, i + 1)
                  ELSE mbr_loop([self EXCEPT !.partitions =
                                     Append(@, mbr_entry(self, i, partition_data))],
                                sector, i + 1)

\* _analyze_mbr
_analyze_mbr(self, sector) == mbr_loop(self, sector, 0)

\* the test that stops the walk over the GPT entry array
gpt_short_record(entry_data, partition_entry_size) == BLen(entry_data) < 128

\* the PartitionEntry built from one record of the GPT entry array
gpt_entry(self, partition_num, entry_data) ==
    LET first_lba   == unpack_le(Slice(entry_data, 32, 40))
        last_lba    == unpack_le(Slice(entry_data, 40, 48))
        num_sectors == last_lba - first_lba + 1
    IN  [number       |-> partition_num,
         type_code    |-> 0,
         start_sector |-> first_lba,
         size_sectors |-> num_sectors,
         end_sector   |-> last_lba,
         size_bytes   |-> num_sectors * self.sector_size,
         guid         |-> hexlify(Slice(entry_data, 16, 32)),
         name         |-> strip_nul(decode_utf16le(Slice(entry_data, 56, 128))),
         attributes   |-> unpack_le(Slice(entry_data, 48, 56)),
         is_active    |-> FALSE]

\* gpt_loop with an all-zero type GUID ending the walk (break for continue)
RECURSIVE gpt_loop_break_on_empty(_, _, _, _, _, _, _)
gpt_loop_break_on_empty(self, file, pos, i, num_partition_entries, partition_entry_size, partition_num) ==
    IF i >= num_partition_entries THEN self
    ELSE LET entry_data == Read(file, pos, partition_entry_size)
             next       == pos + BLen(entry_data)
         IN  IF gpt_short_record(entry_data, partition_entry_size)
             THEN self
             ELSE IF all_zero(Slice(entry_data, 0, 16))
                  THEN self
                  ELSE IF unpack_le(Slice(entry_data, 32, 40)) = 0
                       THEN gpt_loop_break_on_empty(self, file, next, i + 1,
                                num_partition_entries, partition_entry_size, partition_num)
                       ELSE gpt_loop_break_on_empty([self EXCEPT !.partitions =
                                    Append(@, gpt_entry(self, partition_num, entry_data))],
                                file, next, i + 1, num_partition_entries,
                                partition_entry_size, partition_num + 1)

\* gpt_loop with partition_num advanced for every record, skipped or not
RECURSIVE gpt_loop_counts_skipped(_, _, _, _, _, _, _)
gpt_loop_counts_skipped(self, file, pos, i, num_partition_entries, partition_entry_size, partition_num) ==
    IF i >= num_partition_entries THEN self
    ELSE LET entry_data == Read(file, pos, partition_entry_size)
             next       == pos + BLen(entry_data)
         IN  IF gpt_short_record(entry_data, partition_entry_size)
             THEN self
             ELSE IF all_zero(Slice(entry_data, 0, 16))
                       \/ unpack_le(Slice(entry_data, 32, 40)) = 0
                  THEN gpt_loop_counts_skipped(self, file, next, i + 1,
                           num_partition_entries, partition_entry_size, partition_num + 1)
                  ELSE gpt_loop_counts_skipped([self EXCEPT !.partitions =
                               Append(@, gpt_entry(self, partition_num, entry_data))],
                           file, next, i + 1, num_partition_entries,
                           partition_entry_size, partition_num + 1)

\* the loop of _analyze_gpt, from record i on, with the file position at pos
RECURSIVE gpt_loop(_, _, _, _, _, _, _)
gpt_loop(self, file, pos, i, num_partition_entries, partition_entry_size, partition_num) ==
    IF i >= num_partition_entries THEN self
    ELSE LET entry_data == Read(file, pos, partition_entry_size)
             next       == pos + BLen(entry_data)
         IN  IF gpt_short_record(entry_data, partition_entry_size)
             THEN self
             ELSE IF all_zero(Slice(entry_data, 0, 16))
                  THEN gpt_loop(self, file, next, i + 1, num_partition_entries,
                                partition_entry_size, partition_num)
                  ELSE IF unpack_le(Slice(entry_data, 32, 40)) = 0
                       THEN gpt_loop(self, file, next, i + 1, num_partition_entries,
                                     partition_entry_size, partition_num)
                       ELSE gpt_loop([self EXCEPT !.partitions =
                                          Append(@, gpt_entry(self, partition_num, entry_data))],
                                     file, next, i + 1, num_partition_entries,
                                     partition_entry_size, partition_num + 1)

\* the GPT header as _analyze_gpt reads it: f.seek(sector_size); f.read(sector_size)
gpt_header_read(self, file) == Read(file, self.sector_size, self.sector_size)

\* _analyze_gpt: a header under 92 bytes only prints and returns
_analyze_gpt(self, file) ==
    LET gpt_header == gpt_header_read(self, file)
    IN  IF BLen(gpt_header) < 92 THEN self
        ELSE LET partition_entries_lba  == unpack_le(Slice(gpt_header, 72, 80))
                 num_partition_entries  == unpack_le(Slice(gpt_header, 80, 84))
                 partition_entry_size   == unpack_le(Slice(gpt_header, 84, 88))
                 partition_table_offset == partition_entries_lba * self.sector_size
             IN  gpt_loop(self, file, partition_table_offset, 0,
                          num_partition_entries, partition_entry_size, 1)

\* short_read taking only an empty read for a short one
short_read_empty_only(sector0, ss) == BLen(sector0) = 0

\* the test of analyze() for a file too small to hold sector 0
short_read(sector0, ss) == BLen(sector0) < ss

----------------------------------------------------------------------------
(* The MBR dumper (src/dump_analyzer.py) *)

\* read_mbr: the first 512 bytes of the file
read_mbr(file) == Read(file, 0, 512)

\* parse_partition_entry
parse_partition_entry(entry_bytes) ==
    [boot_flag     |-> Idx(entry_bytes, 0),
     type          |-> Idx(entry_bytes, 4),
     first_sector  |-> unpack_le(Slice(entry_bytes, 8, 12)),
     total_sectors |-> unpack_le(Slice(entry_bytes, 12, 16))]

\* analyze_mbr: the four slots at offset 446, none left out (a missing
\* signature only prints a warning)
analyze_mbr(mbr) ==
    [n \in 1..4 |->
        parse_partition_entry(Slice(mbr, 446 + ((n - 1) * 16), 446 + (n * 16)))]

----------------------------------------------------------------------------

NoTrace == [detect |-> FALSE, decoder |-> "none", short |-> FALSE]

\* analyze(): the fields of the instance afterwards, the value returned and
\* what was run.  _print_colored_hex_dump and _find_first_sectors only read.
analyze_call(self, file) ==
    IF ~file.exists
    THEN [self |-> self, ret |-> FALSE, trace |-> NoTrace]      \* FileNotFoundError
    ELSE LET s0      == [self EXCEPT !.disk_size = file.size]
             sector0 == Read(file, 0, self.sector_size)
         IN  IF short_read(sector0, self.sector_size)
             THEN [self |-> s0, ret |-> FALSE,
                   trace |-> [NoTrace EXCEPT !.short = TRUE]]
             ELSE LET s1 == _detect_partition_type(s0, sector0)
                  IN  IF s1.partition_type = "MBR"
                      THEN [self  |-> _analyze_mbr(s1, sector0), ret |-> TRUE,
                            trace |-> [NoTrace EXCEPT !.detect = TRUE, !.decoder = "mbr"]]
                      ELSE IF s1.partition_type = "GPT"
                           THEN [self  |-> _analyze_gpt(s1, file), ret |-> TRUE,
                                 trace |-> [NoTrace EXCEPT !.detect = TRUE, !.decoder = "gpt"]]
                           ELSE [self  |-> s1, ret |-> FALSE,
                                 trace |-> [NoTrace EXCEPT !.detect = TRUE]]

----------------------------------------------------------------------------
(* The image files of the model: crafted sectors, as the program may be    *)
(* given.  All multi-byte values are kept below 2^31.                      *)

SectorSizes == {512, 4096}

\* the little-endian bytes of v, n of them
RECURSIVE LE(_, _)
LE(v, n) == IF n = 0 THEN <<>> ELSE <<v % 256>> \o LE(v \div 256, n - 1)

\* n zero bytes
Zeros(n) == [k \in 1..n |-> 0]

\* the non-zero bytes of seq, placed at offset off
Put(off, seq) ==
    [o \in {off + k - 1 : k \in {j \in 1..Len(seq) : seq[j] # 0}} |-> seq[o - off + 1]]

\* a 16-byte MBR slot
MbrSlot(status, type, lba, n) ==
    <<status, 0, 0, 0, type, 0, 0, 0>> \o LE(lba, 4) \o LE(n, 4)

SlotE  == Zeros(16)                          \* empty
SlotX  == MbrSlot(128, 131, 2048, 204800)    \* active, 0x83
SlotY  == MbrSlot(0, 130, 206848, 4096)      \* 0x82
SlotN0 == MbrSlot(0, 131, 63, 0)             \* a type with sector count 0
SlotT0 == MbrSlot(0, 0, 100, 50)             \* type 0x00 with lba_start # 0
SlotL0 == MbrSlot(0, 7, 0, 300)              \* a type with lba_start 0
SlotP  == MbrSlot(0, 238, 1, 409599)         \* 0xEE, protective
SlotS  == MbrSlot(1, 12, 4096, 8)            \* a status that is neither 0x00 nor 0x80

SlotTables ==
    { <<SlotE, SlotE, SlotE, SlotE>>,
      <<SlotX, SlotE, SlotE, SlotE>>,
      <<SlotE, SlotX, SlotE, SlotY>>,
      <<SlotX, SlotY, SlotE, SlotE>>,
      <<SlotN0, SlotE, SlotX, SlotE>>,
      <<SlotT0, SlotL0, SlotE, SlotE>>,
      <<SlotP, SlotE, SlotE, SlotE>>,
      <<SlotX, SlotP, SlotE, SlotE>>,
      <<SlotS, SlotE, SlotE, SlotX>> }

\* the bytes of sector 0: four slots at 446, the boot signature at 510
Sector0(sig, slots) ==
    Put(446, slots[1] \o slots[2] \o slots[3] \o slots[4])
    @@ (IF sig THEN Put(510, <<85, 170>>) ELSE <<>>)

\* a 92-byte GPT header
GptHeader(lba, num, esz) ==
    EFI_PART \o <<0, 0, 1, 0>> \o LE(92, 4) \o Zeros(8) \o LE(1, 8) \o Zeros(8)
    \o LE(34, 8) \o Zeros(8) \o Zeros(16) \o LE(lba, 8) \o LE(num, 4) \o LE(esz, 4)
    \o Zeros(4)

GuidLinux == <<15, 198, 61, 175, 132, 131, 71, 114, 142, 121, 61, 105, 216, 71, 125, 228>>

GuidEsp == <<193, 42, 115, 40, 248, 31, 17, 210, 186, 75, 0, 160, 201, 62, 201, 59>>

\* a 128-byte record of the GPT entry array
GptRecord(type_guid, unique, first_lba, last_lba, attrs, name) ==
    type_guid \o unique \o LE(first_lba, 8) \o LE(last_lba, 8) \o LE(attrs, 8)
    \o name \o Zeros(72 - Len(name))

RecA  == GptRecord(GuidLinux, <<1>> \o Zeros(15), 2048, 4095, 0, <<114, 0, 111, 0>>)
RecB  == GptRecord(GuidEsp, <<171>> \o Zeros(15), 34, 2047, 4, <<0, 0, 69, 0, 0, 0>>)
RecZ  == GptRecord(Zeros(16), <<2>> \o Zeros(15), 5000, 5999, 1, <<122, 0>>)   \* no type
RecF0 == GptRecord(GuidEsp, <<3>> \o Zeros(15), 0, 99, 0, <<102, 0>>)          \* first_lba 0
RecR  == GptRecord(GuidLinux, <<4>> \o Zeros(15), 4096, 100, 0, <<>>)          \* last < first

RecordLists ==
    { <<RecA, RecB>>,
      <<RecZ, RecA, RecF0>>,
      <<RecR, RecA>>,
      <<RecA, RecZ, RecB>> }

\* a record cut or padded to the declared size
Sized(rec, esz) ==
    IF esz <= 128 THEN SubSeq(rec, 1, esz) ELSE rec \o Zeros(esz - 128)

RECURSIVE Flatten(_, _)
Flatten(recs, esz) ==
    IF recs = <<>> THEN <<>> ELSE Sized(Head(recs), esz) \o Flatten(Tail(recs), esz)

EntrySizes == {64, 128, 256}

\* a file of size bytes: the bytes of data that lie below size
File(size, data) ==
    [exists |-> TRUE, size |-> size,
     data   |-> [o \in {x \in DOMAIN data : x < size} |-> data[o]]]

\* an image holding sector 0 only, size bytes of it
MbrImage(sig, slots, size) == File(size, Sector0(sig, slots))

\* a GPT image: header at byte offset hdr_at, array at sector index 2 of
\* sectors of ss bytes, cut bytes missing from the end of the array
GptImage(ss, hdr_at, sec0, recs, esz, cut) ==
    File((2 * ss) + (Len(recs) * esz) - cut,
         sec0 @@ Put(hdr_at, GptHeader(2, Len(recs), esz))
              @@ Put(2 * ss, Flatten(recs, esz)))

NoFile == [exists |-> FALSE, size |-> 0, data |-> <<>>]

ProtectiveSector == Sector0(TRUE, <<SlotP, SlotE, SlotE, SlotE>>)

BlankSector == Sector0(FALSE, <<SlotE, SlotE, SlotE, SlotE>>)

Images(ss) ==
    {NoFile}
    \cup {MbrImage(sig, slots, ss) : sig \in BOOLEAN, slots \in SlotTables}
    \cup {MbrImage(TRUE, <<SlotX, SlotE, SlotE, SlotE>>, size) : size \in {300, ss - 1}}
    \cup {GptImage(ss, ss, sec0, recs, esz, cut) :
              sec0 \in {ProtectiveSector, BlankSector}, recs \in RecordLists,
              esz \in EntrySizes, cut \in {0, 10}}
    \cup {File(size, GptImage(ss, ss, sec0, <<RecA>>, 128, 0).data) :
              sec0 \in {ProtectiveSector, BlankSector}, size \in {ss, ss + 91, ss + 92}}
    \cup {GptImage(ss, 512, BlankSector, <<RecA, RecB>>, 128, 0)}

\* what the file may be replaced by between two calls
Replacements(ss) ==
    { MbrImage(FALSE, <<SlotX, SlotE, SlotE, SlotE>>, ss),
      MbrImage(TRUE, <<SlotE, SlotX, SlotE, SlotY>>, ss),
      MbrImage(TRUE, <<SlotX, SlotE, SlotE, SlotE>>, 300) }

----------------------------------------------------------------------------
(* The state machine *)

Self ==
    [sector_size    |-> sector_size,
     partition_type |-> partition_type,
     partitions     |-> partitions,
     boot_signature |-> boot_signature,
     disk_size      |-> disk_size]

Init ==
    /\ sector_size \in SectorSizes
    /\ image \in Images(sector_size)
    /\ partition_type = DiskAnalyzer(sector_size).partition_type
    /\ partitions = DiskAnalyzer(sector_size).partitions
    /\ boot_signature = DiskAnalyzer(sector_size).boot_signature
    /\ disk_size = DiskAnalyzer(sector_size).disk_size
    /\ ret = "none"
    /\ trace = NoTrace
    /\ last = "init"
    /\ before = [partition_type |-> "Unknown", partitions |-> <<>>, last |-> "init"]
    /\ passes = 0
    /\ rewrites = 0

\* one call of analyze() on the instance
analyze ==
    /\ passes < MaxPasses
    /\ LET r == analyze_call(Self, image)
       IN  /\ partition_type' = r.self.partition_type
           /\ partitions' = r.self.partitions
           /\ boot_signature' = r.self.boot_signature
           /\ disk_size' = r.self.disk_size
           /\ ret' = r.ret
           /\ trace' = r.trace
    /\ before' = [partition_type |-> partition_type, partitions |-> partitions,
                  last |-> last]
    /\ last' = "analyze"
    /\ passes' = passes + 1
    /\ UNCHANGED <<image, sector_size, rewrites>>

\* the environment replaces the content of the image file
RewriteImage ==
    /\ rewrites < MaxRewrites
    /\ passes < MaxPasses
    /\ \E new \in Replacements(sector_size) :
          /\ new # image
          /\ image' = new
    /\ last' = "rewrite"
    /\ rewrites' = rewrites + 1
    /\ UNCHANGED <<sector_size, partition_type, partitions, boot_signature,
                   disk_size, ret, trace, before, passes>>

Next == analyze \/ RewriteImage

Spec == Init /\ [][Next]_vars

----------------------------------------------------------------------------
(* What the claims speak of, read from the image the last analyze() was    *)
(* given (the image is unchanged while last = "analyze").                  *)

Analyzed == last = "analyze"

\* sector 0 is there in full
Sector0Full == image.exists /\ image.size >= sector_size

\* bytes 510 and 511 are 0x55 0xAA
HasBootSig == ByteAt(image.data, 510) = 85 /\ ByteAt(image.data, 511) = 170

\* byte 450, the type code of MBR entry 0
Entry0Type == ByteAt(image.data, 450)

\* the n-byte little-endian value at offset o of the image
RECURSIVE ValueAt(_, _)
ValueAt(o, n) ==
    IF n = 0 THEN 0 ELSE ByteAt(image.data, o) + 256 * ValueAt(o + 1, n - 1)

\* the 8 bytes at offset o of the image are 'EFI PART'
EfiPartAt(o) ==
    /\ image.size >= o + 8
    /\ \A k \in 1..8 : ByteAt(image.data, o + k - 1) = EFI_PART[k]

\* the entries the last analyze() added
Added ==
    IF Len(partitions) >= Len(before.partitions)
    THEN SubSeq(partitions, Len(before.partitions) + 1, Len(partitions))
    ELSE <<>>

----------------------------------------------------------------------------
(* C1 *)

C1_Protective == Analyzed /\ Sector0Full /\ HasBootSig /\ Entry0Type = 238

----------------------------------------------------------------------------
(* C2 *)

\* C2: an image whose sector 0 lacks the boot signature and whose 8 bytes
\* at absolute offset sector_size are 'EFI PART' is classified GPT, for
\* every sector size.
C2_PlainGptDetected ==
    (Analyzed /\ Sector0Full /\ ~HasBootSig /\ EfiPartAt(sector_size)) =>
        partition_type = "GPT"

----------------------------------------------------------------------------
(* C3 *)

\* the slots of the MBR that are not empty: type code or lba_start non-zero
UsedSlots ==
    {i \in 0..3 : ~(ByteAt(image.data, 446 + (16 * i) + 4) = 0
                    /\ ValueAt(446 + (16 * i) + 8, 4) = 0)}

C3_MbrPass == Analyzed /\ Sector0Full /\ trace.decoder = "mbr"

----------------------------------------------------------------------------
(* C4 *)

\* C4: analyze() run again on the instance with the image unchanged yields
\* the same table type and the same ordered partition list as the run
\* before it; nothing of the earlier run is accumulated.
C4_Idempotent ==
    (Analyzed /\ before.last = "analyze") =>
        /\ partition_type = before.partition_type
        /\ partitions = before.partitions

----------------------------------------------------------------------------
(* C5 *)

\* C5: every partition entry held satisfies start_lba <= end_lba and
\* sector_count >= 1.
C5_EntryRange ==
    \A k \in 1..Len(partitions) :
        /\ partitions[k].start_sector <= partitions[k].end_sector
        /\ partitions[k].size_sectors >= 1

----------------------------------------------------------------------------
(* C6 *)

C6_Short == Analyzed /\ image.exists /\ image.size < sector_size

----------------------------------------------------------------------------
(* C7 *)

\* the bytes there are for the GPT header at byte offset sector_size
HeaderAvailable == Max(0, Min(sector_size, image.size - sector_size))

\* C7: when the disk is classified GPT and fewer than 92 bytes are there
\* for the header, analyze() does not report success.
C7_TruncatedHeaderFails ==
    (Analyzed /\ Sector0Full /\ trace.decoder = "gpt" /\ partition_type = "GPT"
     /\ HeaderAvailable < 92) => ret # TRUE

----------------------------------------------------------------------------
(* C8 *)

\* C8: a pass over a sector 0 with neither the boot signature nor the GPT
\* signature (at offset sector_size, and at the offset 0x200 the code looks
\* at) invokes no decoder and adds no entry, whatever earlier calls did.
C8_UnknownRunsNoDecoder ==
    (Analyzed /\ Sector0Full /\ ~HasBootSig /\ ~EfiPartAt(sector_size)
     /\ ~EfiPartAt(512)) =>
        /\ trace.decoder = "none"
        /\ partitions = before.partitions

----------------------------------------------------------------------------
(* C9 *)

C9_LegacyMbr == Analyzed /\ Sector0Full /\ HasBootSig /\ Entry0Type # 238

\* C9: a first sector with the boot signature and a type other than 0xEE
\* in entry 0 is classified MBR, and the MBR decoder is the one run: the
\* entries added are those of the used slots, none carrying a GUID.
C9_MbrDetected ==
    C9_LegacyMbr =>
        /\ partition_type = "MBR"
        /\ boot_signature = "55 AA"
        /\ trace.detect /\ trace.decoder = "mbr"
        /\ ret = TRUE
        /\ Len(Added) = Cardinality(UsedSlots)
        /\ \A k \in 1..Len(Added) : Added[k].guid = <<>>

C9_Witness ==
    /\ C9_LegacyMbr /\ partition_type = "MBR" /\ trace.decoder = "mbr"
    /\ Entry0Type = 131 /\ Len(Added) >= 1

----------------------------------------------------------------------------
(* C10 *)

\* the fields of the GPT header at byte offset sector_size
HdrEntriesLba == ValueAt(sector_size + 72, 8)

HdrNumEntries == ValueAt(sector_size + 80, 4)

HdrEntrySize == ValueAt(sector_size + 84, 4)

\* where record i of the entry array begins
RecordAt(i) == (HdrEntriesLba * sector_size) + (i * HdrEntrySize)

\* record i and every record before it is there in full
RecordComplete(i) == RecordAt(i + 1) <= image.size

\* record i has a type GUID and a first_lba
RecordUsed(i) ==
    /\ \E k \in 0..15 : ByteAt(image.data, RecordAt(i) + k) # 0
    /\ ValueAt(RecordAt(i) + 32, 8) # 0

C10_GptPass ==
    /\ Analyzed /\ Sector0Full /\ trace.decoder = "gpt"
    /\ HeaderAvailable >= 92
    /\ HdrEntrySize >= 56

\* C10: the walk honours the declared partition_entry_size: every used
\* record that is there in full in its declared size, 128 or not, is
\* decoded, a record being a short read only when it is not there in full.
C10_DeclaredSizeHonoured ==
    C10_GptPass =>
        Len(Added) >= Cardinality({i \in 0..(HdrNumEntries - 1) :
                                       RecordComplete(i) /\ RecordUsed(i)})

----------------------------------------------------------------------------
(* C11 *)

\* the walk takes record i as read: at least 128 bytes of it were read
\* (whether 128 or the declared size is the measure is what C10 is about)
RecordTaken(i) ==
    Min(HdrEntrySize, Max(0, image.size - RecordAt(i))) >= 128

\* the indices, in array order from i on, of the records to be emitted:
\* those with a type GUID and a first_lba, up to the first record not taken
RECURSIVE EmittedFrom(_)
EmittedFrom(i) ==
    IF i >= HdrNumEntries \/ ~RecordTaken(i) THEN <<>>
    ELSE (IF RecordUsed(i) THEN <<i>> ELSE <<>>) \o EmittedFrom(i + 1)

\* the type GUID of record i is all-zero
RecordUntyped(i) == \A k \in 0..15 : ByteAt(image.data, RecordAt(i) + k) = 0

C11_GptPass ==
    /\ Analyzed /\ Sector0Full /\ trace.decoder = "gpt"
    /\ HeaderAvailable >= 92

\* C11: of the records the walk reads, exactly those whose type GUID is not
\* all-zero and whose first_lba is not 0 are emitted, in array order; a
\* record with an all-zero type GUID is skipped whatever its other fields,
\* one with a type GUID and first_lba 0 is skipped too, and a skip does not
\* end the walk: the records after it are still emitted.
C11_SkipRule ==
    C11_GptPass =>
        /\ Len(Added) = Len(EmittedFrom(0))
        /\ \A k \in 1..Len(Added) :
              /\ Added[k].start_sector = ValueAt(RecordAt(EmittedFrom(0)[k]) + 32, 8)
              /\ Added[k].end_sector = ValueAt(RecordAt(EmittedFrom(0)[k]) + 40, 8)
              /\ Added[k].attributes = ValueAt(RecordAt(EmittedFrom(0)[k]) + 48, 8)
              /\ Added[k].start_sector # 0
              /\ ~RecordUntyped(EmittedFrom(0)[k])

\* a record without type GUID but with other fields set is skipped, so is a
\* typed one with first_lba 0, and the record between them is emitted
C11_Witness ==
    /\ C11_GptPass
    /\ HdrNumEntries = 3
    /\ RecordTaken(2)
    /\ RecordUntyped(0) /\ ValueAt(RecordAt(0) + 32, 8) # 0
    /\ ~RecordUntyped(2) /\ ValueAt(RecordAt(2) + 32, 8) = 0
    /\ EmittedFrom(0) = <<1>>
    /\ Len(Added) = 1
    /\ Added[1].start_sector = ValueAt(RecordAt(1) + 32, 8)

----------------------------------------------------------------------------
(* C12 *)

\* C12: the entries one GPT pass emits carry the numbers 1, 2, ..., N in
\* array order, without gap or repeat, whatever the position of their
\* records in the array: a skipped record consumes no number.
C12_GptNumbering ==
    C11_GptPass => \A k \in 1..Len(Added) : Added[k].number = k

\* records 0 and 2 are emitted around a skipped record 1: numbers 1 and 2
C12_Witness ==
    /\ C11_GptPass
    /\ EmittedFrom(0) = <<0, 2>>
    /\ Len(Added) = 2
    /\ Added[1].number = 1 /\ Added[2].number = 2

----------------------------------------------------------------------------
(* C13 *)

\* the indices, from i on, of the records to be emitted when the walk stops
\* at the first record that is not there in full in its declared size
RECURSIVE CompleteEmittedFrom(_)
CompleteEmittedFrom(i) ==
    IF i >= HdrNumEntries \/ ~RecordComplete(i) THEN <<>>
    ELSE (IF RecordUsed(i) THEN <<i>> ELSE <<>>) \o CompleteEmittedFrom(i + 1)

\* the walk meets a short read: a declared record is not there in full
ShortReadInArray ==
    \E i \in 0..(HdrNumEntries - 1) : ~RecordComplete(i)

\* C13: a short read in the GPT entry array stops the walk at that record
\* and keeps what was decoded before it: the entries added are exactly those
\* of the complete records before the short one, and the table is kept (the
\* disk stays GPT, the call succeeds).
C13_ShortReadTruncates ==
    (C11_GptPass /\ HdrEntrySize >= 128 /\ ShortReadInArray) =>
        /\ Len(Added) = Len(CompleteEmittedFrom(0))
        /\ \A k \in 1..Min(Len(Added), Len(CompleteEmittedFrom(0))) :
              Added[k].start_sector = ValueAt(RecordAt(CompleteEmittedFrom(0)[k]) + 32, 8)
        /\ partition_type = "GPT"
        /\ ret = TRUE

----------------------------------------------------------------------------
(* C14 *)

\* the used slots of the MBR in slot order, from slot i on
RECURSIVE UsedSlotsFrom(_)
UsedSlotsFrom(i) ==
    IF i > 3 THEN <<>>
    ELSE (IF i \in UsedSlots THEN <<i>> ELSE <<>>) \o UsedSlotsFrom(i + 1)

\* C14: of the four slots at byte offset 446 + 16*i, exactly those with
\* type_code 0x00 and lba_start 0 are dropped; an emitted entry has
\* start_lba the 32-bit little-endian value at slot offset 8, sector_count
\* the one at offset 12, end_lba = lba_start + sector_count - 1, size_bytes
\* = sector_count * sector_size, is_active exactly for status 0x80, empty
\* guid and name and attributes 0; parse_partition_entry of the dumper reads
\* the same slot to the same type, start and count.
C14_MbrFields ==
    C3_MbrPass =>
        /\ Len(Added) = Len(UsedSlotsFrom(0))
        /\ \A k \in 1..Len(Added) :
              LET i    == UsedSlotsFrom(0)[k]
                  slot == 446 + (16 * i)
                  e    == Added[k]
                  d    == analyze_mbr(read_mbr(image))[i + 1]
              IN  /\ e.type_code = ByteAt(image.data, slot + 4)
                  /\ e.start_sector = ValueAt(slot + 8, 4)
                  /\ e.size_sectors = ValueAt(slot + 12, 4)
                  /\ e.end_sector = ValueAt(slot + 8, 4) + ValueAt(slot + 12, 4) - 1
                  /\ e.size_bytes = ValueAt(slot + 12, 4) * sector_size
                  /\ e.is_active = (ByteAt(image.data, slot) = 128)
                  /\ e.guid = <<>> /\ e.name = <<>> /\ e.attributes = 0
                  /\ d.type = e.type_code
                  /\ d.first_sector = e.start_sector
                  /\ d.total_sectors = e.size_sectors
                  /\ (d.boot_flag = 128) = e.is_active

\* a slot of type 0x00 with lba_start 100 and one of type 0x07 with
\* lba_start 0 are both emitted, the two all-zero slots are not
C14_Witness ==
    /\ C3_MbrPass
    /\ UsedSlots = {0, 1}
    /\ Len(Added) = 2
    /\ Added[1].type_code = 0 /\ Added[1].start_sector = 100 /\ Added[1].end_sector = 149
    /\ Added[2].type_code = 7 /\ Added[2].start_sector = 0
    /\ Added[2].size_bytes = 300 * sector_size

====
